---- MODULE Spec2Model ----
(***************************************************************************)
(* A model of the two programs of the repository:                          *)
(*   src/webscrapper.py  class WebScraper (fetch, extract, export, loop)   *)
(*   src/Hangamn.py      class HangmanGame (the guessing loop)             *)
(* Each component has its own specification over the shared variables; a   *)
(* specification leaves the variables of the other components untouched.   *)
(*                                                                         *)
(* Python values are encoded as follows.                                   *)
(*   None / an object x        <<>> / <<x>>                                *)
(*   a dict                    a function whose DOMAIN is the key set      *)
(*   a list                    a sequence                                  *)
(*   an exception that escapes the name of its class in "raised" ("" when  *)
(*                             the call returned normally)                 *)
(***************************************************************************)
EXTENDS Integers, Sequences, FiniteSets, TLC

VARIABLES
    pc,              \* position of the running operation
    printed,         \* what the operation wrote to stdout (print calls)
    raised,          \* class of the exception that escaped to the caller
    result,          \* value(s) returned to the caller
    \* ---- WebScraper object and its environment
    base_url,        \* self.base_url
    delay,           \* self.delay
    requests,        \* URLs passed to self.session.get, in order
    slept,           \* total seconds passed to time.sleep
    web,             \* the page each URL serves on a 2xx response
    \* ---- scrape_multiple_pages
    urls,            \* argument urls
    idx,             \* position of the for loop in urls (1-based)
    outcomes,        \* what the network did at each fetch_page call
    fetched,         \* what each fetch_page call returned
    all_data,        \* local all_data
    \* ---- extractors and scrape_table
    soup,            \* the document argument (None or a parsed page)
    url_arg,         \* argument url of scrape_table
    table_index,     \* argument table_index
    \* ---- save_to_csv / save_to_json
    data,            \* argument data
    file,            \* the file named by the argument filename
    \* ---- HangmanGame object
    word,            \* self.word
    guessed_letters, \* self.guessed_letters
    wrong_guesses,   \* self.wrong_guesses
    hint_used        \* self.hint_used

vars == <<pc, printed, raised, result, base_url, delay, requests, slept, web,
          urls, idx, outcomes, fetched, all_data, soup, url_arg, table_index,
          data, file, word, guessed_letters, wrong_guesses, hint_used>>

scraperVars == <<base_url, delay, requests, slept, web>>
loopVars    == <<urls, idx, outcomes, fetched, all_data>>
docVars     == <<soup, url_arg, table_index>>
saveVars    == <<data, file>>
gameVars    == <<word, guessed_letters, wrong_guesses, hint_used>>

None == <<>>
Some(x) == <<x>>

\* ---- bounds of the model
MaxUrls == 3
MaxDelay == 2

\* Values of the variables a specification does not use.
LoopIdle == urls = <<>> /\ idx = 1 /\ outcomes = <<>> /\ fetched = <<>>
            /\ all_data = <<>>
DocIdle  == soup = None /\ url_arg = "" /\ table_index = 0
SaveIdle == data = <<>>
            /\ file = [exists |-> FALSE, lines |-> <<>>, opened |-> FALSE]
GameIdle == word = <<>> /\ guessed_letters = {} /\ wrong_guesses = 0
            /\ hint_used = FALSE

(***************************************************************************)
(* WebScraper.fetch_page                                                   *)
(***************************************************************************)

\* requests.exceptions.RequestException and the subclasses session.get and
\* raise_for_status raise: the network-layer errors and the HTTP-status error.
NetworkErrors == {"ConnectionError", "Timeout", "TooManyRedirects"}
StatusErrors == {"HTTPError"}
RequestException == NetworkErrors \cup StatusErrors

\* What one session.get + raise_for_status can do: a 2xx response, or raise.
Outcomes == {"ok"} \cup RequestException

\* A faulty variant of the except clause: only connection errors are caught.
ExceptConnectionErrorOnly(exc) == exc = "ConnectionError"

\* except requests.exceptions.RequestException as e
ExceptRequestException(exc) == exc \in RequestException

\* BeautifulSoup(response.content, 'html.parser') of the page the URL serves
BeautifulSoup(url) == web[url]

\* fetch_page(url) when the network answers with `outcome`: the value
\* returned, the session.get calls made, the seconds slept, the lines
\* printed and the exception that escapes.
fetch_page(url, outcome) ==
    IF outcome = "ok"
    THEN [ret |-> Some(BeautifulSoup(url)), gets |-> <<url>>, sleep |-> delay,
          out |-> <<"Fetching">>, exc |-> ""]
    ELSE IF ExceptRequestException(outcome)
    THEN [ret |-> None, gets |-> <<url>>, sleep |-> 0,
          out |-> <<"Fetching", "Error fetching">>, exc |-> ""]
    ELSE [ret |-> None, gets |-> <<url>>, sleep |-> 0,
          out |-> <<"Fetching">>, exc |-> outcome]

(***************************************************************************)
(* WebScraper.scrape_multiple_pages                                        *)
(***************************************************************************)

Urls == {"u1", "u2", "u3"}

RECURSIVE SeqsUpTo(_, _)
\* All sequences over S of length at most n.
SeqsUpTo(S, n) ==
    IF n = 0 THEN {<<>>}
    ELSE LET shorter == SeqsUpTo(S, n - 1)
         IN  shorter \cup {Append(s, x) : s \in {t \in shorter : Len(t) = n - 1}, x \in S}

\* The caller's extract_func (extract_data of example_multi_page_scraping,
\* reduced to the title): a fresh dict per page.
extract_func(doc) == [title |-> doc.title]

\* A faulty variant of the loop body: a record is appended for a failed fetch too.
append_always(all, s, url) ==
    Append(all, IF s # None THEN ("url" :> url) @@ extract_func(s[1])
                ELSE ("url" :> url))

\* if soup: data = extract_func(soup); data['url'] = url; all_data.append(data)
append_if_soup(all, s, url) ==
    IF s # None THEN Append(all, ("url" :> url) @@ extract_func(s[1])) ELSE all

\* WebScraper("https://example.com"): delay=1 by default, nothing fetched yet
ScraperNew ==
    /\ base_url = "https://example.com"
    /\ delay = 1
    /\ requests = <<>>
    /\ slept = 0
    /\ web = <<>>

\* WebScraper("https://example.com", delay=d) and the pages of the site
Init ==
    /\ pc = "idle" /\ printed = <<>> /\ raised = "" /\ result = None
    /\ base_url = "https://example.com"
    /\ delay \in 0..MaxDelay
    /\ requests = <<>>
    /\ slept = 0
    /\ web = [u \in Urls |-> [title |-> <<"title of", u>>]]
    /\ LoopIdle /\ DocIdle /\ SaveIdle /\ GameIdle

\* a call of scrape_multiple_pages(urls, extract_func): all_data = []
ScrapeCall ==
    /\ pc = "idle"
    /\ urls' \in SeqsUpTo(Urls, MaxUrls)
    /\ idx' = 1 /\ all_data' = <<>>
    /\ pc' = "loop"
    /\ UNCHANGED <<printed, raised, result, scraperVars, outcomes, fetched,
                   docVars, saveVars, gameVars>>

\* one iteration of `for url in urls`
ScrapeIteration ==
    /\ pc = "loop" /\ idx <= Len(urls)
    /\ \E outcome \in Outcomes :
         LET url == urls[idx]
             r == fetch_page(url, outcome)
         IN  /\ outcomes' = Append(outcomes, outcome)
             /\ fetched' = Append(fetched, r.ret)
             /\ requests' = requests \o r.gets
             /\ slept' = slept + r.sleep
             /\ printed' = printed \o r.out
             /\ IF r.exc # ""
                THEN /\ raised' = r.exc /\ pc' = "raised"
                     /\ UNCHANGED <<idx, all_data>>
                ELSE /\ all_data' = append_if_soup(all_data, r.ret, url)
                     /\ idx' = idx + 1
                     /\ UNCHANGED <<raised, pc>>
    /\ UNCHANGED <<result, base_url, delay, web, urls, docVars, saveVars,
                   gameVars>>

\* return all_data
ScrapeReturn ==
    /\ pc = "loop" /\ idx > Len(urls)
    /\ result' = Some(all_data)
    /\ pc' = "done"
    /\ UNCHANGED <<printed, raised, scraperVars, loopVars, docVars, saveVars,
                   gameVars>>

Next == ScrapeCall \/ ScrapeIteration \/ ScrapeReturn

Spec == Init /\ [][Next]_vars
(***************************************************************************)
(* WebScraper.extract_links                                                *)
(* A URL is kept in its parsed form, the components urlparse gives:        *)
(* [scheme, netloc, path], with netloc = [host, port] and a path a list of *)
(* segments that starts with "/" when it is absolute.                      *)
(***************************************************************************)

NoNetloc == [host |-> "", port |-> ""]
Url(scheme, host, port, path) ==
    [scheme |-> scheme, netloc |-> [host |-> host, port |-> port], path |-> path]

\* urlparse(url).netloc
urlparse_netloc(url) == url.netloc

\* str.lower on the host names of the model
Lower(s) == IF s = "Example.COM" THEN "example.com" ELSE s

\* urlparse(url).hostname: the host of the netloc, lower-cased, without port
urlparse_hostname(url) == Lower(url.netloc.host)

\* urllib.parse.uses_relative / uses_netloc, the schemes of the model
uses_relative == {"", "http", "https"}

\* the directory of a base path joined with a relative reference
MergePath(bpath, path) ==
    IF path = <<>> THEN bpath
    ELSE IF path[1] = "/" THEN path
    ELSE IF bpath = <<>> THEN <<"/">> \o path
    ELSE SubSeq(bpath, 1, Len(bpath) - 1) \o path

\* urllib.parse.urljoin(base, url)
urljoin(base, url) ==
    IF url = Url("", "", "", <<>>) THEN base
    ELSE LET scheme == IF url.scheme = "" THEN base.scheme ELSE url.scheme
         IN  IF scheme # base.scheme \/ scheme \notin uses_relative
             THEN url
             ELSE IF url.netloc # NoNetloc
             THEN [scheme |-> scheme, netloc |-> url.netloc, path |-> url.path]
             ELSE [scheme |-> scheme, netloc |-> base.netloc,
                   path |-> MergePath(base.path, url.path)]

\* A faulty variant of the filter: the schemes are compared instead of the netlocs.
same_scheme(url) == url.scheme = base_url.scheme

\* urlparse(url).netloc == urlparse(self.base_url).netloc
same_netloc(url) == urlparse_netloc(url) = urlparse_netloc(base_url)

\* extract_links(soup, filter_internal); list(set(links)) is kept as a set.
\* A document is [anchors |-> the href of each <a>, None without one].
extract_links(s, filter_internal) ==
    IF s = None THEN {}
    ELSE LET hrefs == {s[1].anchors[i][1] :
                         i \in {j \in DOMAIN s[1].anchors : s[1].anchors[j] # None}}
             links == {urljoin(base_url, h) : h \in hrefs}
         IN  IF filter_internal THEN {u \in links : same_netloc(u)} ELSE links

MaxAnchors == 2

BaseUrls ==
    { Url("https", "example.com", "", <<>>),
      Url("https", "example.com", "8080", <<"/", "docs", "index.html">>),
      Url("", "", "", <<"example.com">>) }

Hrefs ==
    { Url("", "", "", <<>>),
      Url("", "", "", <<"about">>),
      Url("", "", "", <<"/", "contact">>),
      Url("", "other.org", "", <<"/", "x">>),
      Url("https", "example.com", "", <<"/", "a">>),
      Url("http", "Example.COM", "", <<"/">>),
      Url("https", "example.com", "8080", <<"/", "a">>),
      Url("https", "other.org", "", <<"/">>),
      Url("mailto", "", "", <<"a@other.org">>) }

LinkDocs ==
    {None} \cup
    {Some([anchors |-> a]) :
        a \in SeqsUpTo({None} \cup {Some(h) : h \in Hrefs}, MaxAnchors)}

LinksInit ==
    /\ pc = "idle" /\ printed = <<>> /\ raised = "" /\ result = <<>>
    /\ base_url \in BaseUrls /\ delay = 1 /\ requests = <<>> /\ slept = 0
    /\ web = <<>>
    /\ soup \in LinkDocs /\ url_arg = "" /\ table_index = 0
    /\ LoopIdle /\ SaveIdle /\ GameIdle

\* a call of extract_links(soup, f); result maps each f called so far to the
\* list returned
ExtractLinksCall ==
    /\ \E f \in BOOLEAN :
         /\ f \notin DOMAIN result
         /\ result' = (f :> extract_links(soup, f)) @@ result
    /\ UNCHANGED <<pc, printed, raised, scraperVars, loopVars, docVars,
                   saveVars, gameVars>>

LinksNext == ExtractLinksCall

SpecLinks == LinksInit /\ [][LinksNext]_vars

(***************************************************************************)
(* WebScraper.extract_metadata                                             *)
(* A document is [title |-> the text of <title>, None without one,         *)
(*   description, keywords |-> the attributes of the <meta name=...>, None *)
(*   without one].                                                         *)
(***************************************************************************)

\* str.strip on the texts of the model (get_text(strip=True))
Strip(s) ==
    CASE s = "  Home " -> "Home"
      [] s = "   " -> ""
      [] s = " h1" -> "h1"
      [] OTHER -> s

\* dict.get(key, default) / Tag.get(key, default)
DictGet(d, key, default) == IF key \in DOMAIN d THEN d[key] ELSE default

\* A faulty variant of the title entry: the title key is set only when the page has a title.
title_if_present(doc) ==
    IF doc.title # None THEN "title" :> Strip(doc.title[1]) ELSE <<>>

\* metadata['title'] = title.get_text(strip=True) if title else 'No title'
title_entry(doc) ==
    "title" :> (IF doc.title # None THEN Strip(doc.title[1]) ELSE "No title")

\* metadata[name] = meta.get('content', default) if meta else default
meta_entry(doc, name, default) ==
    name :> (IF doc[name] # None THEN DictGet(doc[name][1], "content", default)
             ELSE default)

\* extract_metadata(soup)
extract_metadata(s) ==
    IF s = None THEN <<>>
    ELSE title_entry(s[1])
         @@ meta_entry(s[1], "description", "No description")
         @@ meta_entry(s[1], "keywords", "No keywords")

MetaTags == {None, Some(<<>>), Some([content |-> ""]), Some([content |-> "a page"])}

MetaDocs ==
    {None} \cup
    {Some([title |-> t, description |-> d, keywords |-> k]) :
        t \in {None, Some("Home"), Some("  Home "), Some("   ")},
        d \in MetaTags, k \in MetaTags}

MetaInit ==
    /\ pc = "idle" /\ printed = <<>> /\ raised = "" /\ result = None
    /\ ScraperNew
    /\ soup \in MetaDocs /\ url_arg = "" /\ table_index = 0
    /\ LoopIdle /\ SaveIdle /\ GameIdle

\* a call of extract_metadata(soup)
ExtractMetadataCall ==
    /\ pc = "idle"
    /\ result' = Some(extract_metadata(soup))
    /\ pc' = "done"
    /\ UNCHANGED <<printed, raised, scraperVars, loopVars, docVars, saveVars,
                   gameVars>>

MetaNext == ExtractMetadataCall

SpecMeta == MetaInit /\ [][MetaNext]_vars
(***************************************************************************)
(* WebScraper.scrape_table                                                 *)
(* A page is [tables |-> the <table> elements]; a table is the list of its *)
(* <tr> rows; a row is the list of the raw texts of its <td>/<th> cells.   *)
(***************************************************************************)

Min(a, b) == IF a < b THEN a ELSE b

\* seq[i] of a Python list: 0-based, a negative index counts from the end,
\* an index outside -len..len-1 raises IndexError.
PyIndexError(seq, i) == i >= Len(seq) \/ i < 0 - Len(seq)
PyIndex(seq, i) == IF i >= 0 THEN seq[i + 1] ELSE seq[Len(seq) + i + 1]

\* [td.get_text(strip=True) for td in row.find_all(['td', 'th'])]
cell_texts(row) == [i \in 1..Len(row) |-> Strip(row[i])]

\* dict(zip(headers, cells)): pairs up to the shorter length; a key that
\* occurs twice keeps the value paired with its last occurrence.
dict_zip(headers, cells) ==
    LET n == Min(Len(headers), Len(cells))
        last(k) == CHOOSE i \in 1..n :
                      /\ headers[i] = k
                      /\ \A j \in (i + 1)..n : headers[j] # k
    IN  [k \in {headers[i] : i \in 1..n} |-> cells[last(k)]]

\* A faulty variant of the row mapping: only a row at least as long as the header is
\* paired; a shorter row gives an empty mapping.
row_dict_full_rows_only(headers, cells) ==
    IF headers # <<>>
    THEN (IF Len(cells) < Len(headers) THEN <<>> ELSE dict_zip(headers, cells))
    ELSE [data |-> cells]

\* dict(zip(headers, cells)) if headers else {'data': cells}
row_dict(headers, cells) ==
    IF headers # <<>> THEN dict_zip(headers, cells) ELSE [data |-> cells]

RECURSIVE data_rows(_, _)
\* for row in table.find_all('tr')[1:]: if cells: rows.append(...)
data_rows(headers, trs) ==
    IF trs = <<>> THEN <<>>
    ELSE LET cells == cell_texts(Head(trs))
         IN  (IF cells # <<>> THEN <<row_dict(headers, cells)>> ELSE <<>>)
             \o data_rows(headers, Tail(trs))

\* the rows of one table: headers from table.find('tr'), then the data rows
table_rows(table) ==
    LET headers == IF table # <<>> THEN cell_texts(table[1]) ELSE <<>>
        trs == IF table # <<>> THEN Tail(table) ELSE <<>>
    IN  data_rows(headers, trs)

\* scrape_table(url, table_index) when the network answers with `outcome`
scrape_table(url, index, outcome) ==
    LET r == fetch_page(url, outcome)
        tables == r.ret[1].tables
        base == [gets |-> r.gets, sleep |-> r.sleep]
    IN  IF r.exc # "" THEN base @@ [ret |-> None, out |-> r.out, exc |-> r.exc]
        ELSE IF r.ret = None
        THEN base @@ [ret |-> Some(<<>>), out |-> r.out, exc |-> ""]
        ELSE IF tables = <<>> \/ index >= Len(tables)
        THEN base @@ [ret |-> Some(<<>>), out |-> r.out \o <<"Table not found">>,
                      exc |-> ""]
        ELSE IF PyIndexError(tables, index)
        THEN base @@ [ret |-> None, out |-> r.out, exc |-> "IndexError"]
        ELSE base @@ [ret |-> Some(table_rows(PyIndex(tables, index))),
                      out |-> r.out, exc |-> ""]

MaxCells == 2
MaxDataRows == 2
MaxTables == 2

\* raw texts of header cells (two of them equal once stripped) and of the
\* data cell at each row and column
HeaderTexts == {"h1", "h2", " h1"}
DataTexts ==
    << <<"a", "b", "c", "d">>, <<"e", "f", "g", "h">>,
       <<"i", "j", "k", "l">>, <<"m", "n", "o", "p">> >>

\* all tables of a header row of at most MaxCells cells and at most
\* MaxDataRows data rows of at most MaxCells cells each
Tables ==
    {<<>>} \cup
    { <<hdr>> \o [r \in 1..Len(widths) |-> SubSeq(DataTexts[r], 1, widths[r])] :
        hdr \in SeqsUpTo(HeaderTexts, MaxCells),
        widths \in SeqsUpTo(0..MaxCells, MaxDataRows) }

\* two tables to tell apart on a page with several
OtherTables ==
    { << <<"h1", "h2">>, <<"a", "b">>, <<"c">> >>, << <<"k">>, <<"v">> >> }

TablePages ==
    {[tables |-> <<t>>] : t \in Tables}
    \cup {[tables |-> ts] : ts \in SeqsUpTo(OtherTables, MaxTables)}

TableInit ==
    /\ pc = "idle" /\ printed = <<>> /\ raised = "" /\ result = None
    /\ base_url = "https://example.com" /\ delay = 1
    /\ requests = <<>> /\ slept = 0
    /\ url_arg = "https://example.com/table-page"
    /\ web \in {(url_arg :> page) : page \in TablePages}
    /\ table_index \in (0 - (MaxTables + 1))..(MaxTables + 1)
    /\ soup = None
    /\ LoopIdle /\ SaveIdle /\ GameIdle

\* a call of scrape_table(url, table_index)
ScrapeTableCall ==
    /\ pc = "idle"
    /\ \E outcome \in Outcomes :
         LET r == scrape_table(url_arg, table_index, outcome)
         IN  /\ outcomes' = Append(outcomes, outcome)
             /\ requests' = requests \o r.gets
             /\ slept' = slept + r.sleep
             /\ printed' = printed \o r.out
             /\ raised' = r.exc
             /\ result' = r.ret
             /\ pc' = IF r.exc # "" THEN "raised" ELSE "done"
    /\ UNCHANGED <<base_url, delay, web, urls, idx, fetched, all_data,
                   docVars, saveVars, gameVars>>

TableNext == ScrapeTableCall

SpecTable == TableInit /\ [][TableNext]_vars
(***************************************************************************)
(* WebScraper.save_to_csv and save_to_json                                 *)
(* The file is [exists, lines, opened]: opened says that the call opened   *)
(* it for writing, which truncates it. A CSV line is the list of values of *)
(* a row, a JSON line is one serialized item. The environment's fault is   *)
(* the exception the file system raises: "PermissionError" at open,        *)
(* "OSError" at the first write, "none" for a healthy disk.                *)
(***************************************************************************)

Faults == {"none", "PermissionError", "OSError"}

\* A faulty variant of the except clause: only I/O errors are caught.
ExceptOSErrorOnly(exc) == exc \in {"PermissionError", "OSError"}

\* except Exception as e
ExceptException(exc) ==
    exc \in {"PermissionError", "OSError", "ValueError", "TypeError"}

\* the keys of a dict in a fixed order (insertion order is not modelled)
KeyOrder == <<"a", "b">>
keys(d) == SelectSeq(KeyOrder, LAMBDA k : k \in DOMAIN d)

RECURSIVE written_rows(_, _)
\* DictWriter.writerows: the lines written before the first row with a key
\* outside fieldnames (ValueError, extrasaction='raise'); a missing key is
\* written as ''.
written_rows(fieldnames, rows) ==
    IF rows = <<>> THEN [lines |-> <<>>, exc |-> ""]
    ELSE IF \E k \in DOMAIN Head(rows) : \A i \in DOMAIN fieldnames : fieldnames[i] # k
    THEN [lines |-> <<>>, exc |-> "ValueError"]
    ELSE LET line == [i \in DOMAIN fieldnames |->
                        DictGet(Head(rows), fieldnames[i], "")]
             rest == written_rows(fieldnames, Tail(rows))
         IN  [lines |-> <<line>> \o rest.lines, exc |-> rest.exc]

\* the body of the try block of save_to_csv: the file left behind and the
\* exception raised in it
csv_try(d, f, fault) ==
    IF fault = "PermissionError" THEN [file |-> f, exc |-> "PermissionError"]
    ELSE IF fault = "OSError"
    THEN [file |-> [exists |-> TRUE, lines |-> <<>>, opened |-> TRUE],
          exc |-> "OSError"]
    ELSE LET fieldnames == keys(d[1])
             w == written_rows(fieldnames, d)
         IN  [file |-> [exists |-> TRUE, lines |-> <<fieldnames>> \o w.lines,
                        opened |-> TRUE],
              exc |-> w.exc]

\* what json.dump cannot serialize (a bs4 Tag left in the data)
Serializable(v) == v # "<Tag>"

RECURSIVE dumped_items(_)
\* json.dump: the items written before the first that is not serializable
dumped_items(items) ==
    IF items = <<>> THEN [lines |-> <<>>, exc |-> ""]
    ELSE IF \E k \in DOMAIN Head(items) : ~Serializable(Head(items)[k])
    THEN [lines |-> <<>>, exc |-> "TypeError"]
    ELSE LET rest == dumped_items(Tail(items))
         IN  [lines |-> <<Head(items)>> \o rest.lines, exc |-> rest.exc]

\* the body of the try block of save_to_json
json_try(d, f, fault) ==
    IF fault = "PermissionError" THEN [file |-> f, exc |-> "PermissionError"]
    ELSE IF fault = "OSError"
    THEN [file |-> [exists |-> TRUE, lines |-> <<>>, opened |-> TRUE],
          exc |-> "OSError"]
    ELSE LET w == dumped_items(d)
         IN  [file |-> [exists |-> TRUE, lines |-> w.lines, opened |-> TRUE],
              exc |-> w.exc]

\* try: ... print("Data saved") except Exception as e: print("Error saving")
try_except(t, saved, error) ==
    IF t.exc = "" THEN [file |-> t.file, out |-> <<saved>>, exc |-> ""]
    ELSE IF ExceptException(t.exc)
    THEN [file |-> t.file, out |-> <<error>>, exc |-> ""]
    ELSE [file |-> t.file, out |-> <<>>, exc |-> t.exc]

\* save_to_csv(data, filename)
save_to_csv(d, f, fault) ==
    IF d = <<>> THEN [file |-> f, out |-> <<"No data to save">>, exc |-> ""]
    ELSE try_except(csv_try(d, f, fault), "Data saved", "Error saving to CSV")

\* save_to_json(data, filename)
save_to_json(d, f, fault) ==
    try_except(json_try(d, f, fault), "Data saved", "Error saving to JSON")

MaxRecords == 2

\* the dicts over the keys a, b with the values of the model
Records ==
    UNION {[ks -> {"1", "<Tag>"}] : ks \in SUBSET {"a", "b"}}

SaveInit ==
    /\ pc = "idle" /\ printed = <<>> /\ raised = "" /\ result = None
    /\ ScraperNew
    /\ data \in SeqsUpTo(Records, MaxRecords)
    /\ file \in {[exists |-> FALSE, lines |-> <<>>, opened |-> FALSE],
                 [exists |-> TRUE, lines |-> <<"old">>, opened |-> FALSE]}
    /\ LoopIdle /\ DocIdle /\ GameIdle

Saved(r, op, fault) ==
    /\ file' = r.file
    /\ printed' = printed \o r.out
    /\ raised' = r.exc
    /\ outcomes' = <<fault>>
    /\ pc' = op
    /\ UNCHANGED <<result, scraperVars, urls, idx, fetched, all_data, docVars,
                   data, gameVars>>

\* a call of save_to_csv(data, filename)
SaveCsvCall ==
    /\ pc = "idle"
    /\ \E fault \in Faults : Saved(save_to_csv(data, file, fault), "csv", fault)

\* a call of save_to_json(data, filename)
SaveJsonCall ==
    /\ pc = "idle"
    /\ \E fault \in Faults : Saved(save_to_json(data, file, fault), "json", fault)

SaveNext == SaveCsvCall \/ SaveJsonCall

SpecSave == SaveInit /\ [][SaveNext]_vars
(***************************************************************************)
(* HangmanGame                                                             *)
(* A string is the list of its characters.                                 *)
(***************************************************************************)

\* self.max_attempts = 6
max_attempts == 6
\* len(HANGMAN_STAGES)
NumStages == 7

ascii_lowercase ==
    <<"a", "b", "c", "d", "e", "f", "g", "h", "i", "j", "k", "l", "m",
      "n", "o", "p", "q", "r", "s", "t", "u", "v", "w", "x", "y", "z">>
ascii_uppercase ==
    <<"A", "B", "C", "D", "E", "F", "G", "H", "I", "J", "K", "L", "M",
      "N", "O", "P", "Q", "R", "S", "T", "U", "V", "W", "X", "Y", "Z">>

Range(seq) == {seq[i] : i \in DOMAIN seq}

\* str.lower
lower(str) ==
    [i \in DOMAIN str |->
        IF str[i] \in Range(ascii_uppercase)
        THEN ascii_lowercase[CHOOSE j \in 1..26 : ascii_uppercase[j] = str[i]]
        ELSE str[i]]

RECURSIVE lstrip(_)
lstrip(str) ==
    IF str # <<>> /\ Head(str) = " " THEN lstrip(Tail(str)) ELSE str

RECURSIVE rstrip(_)
rstrip(str) ==
    IF str # <<>> /\ str[Len(str)] = " "
    THEN rstrip(SubSeq(str, 1, Len(str) - 1)) ELSE str

\* str.strip
strip(str) == rstrip(lstrip(str))

\* the word of WORD_LISTS the model plays ('sports': 'tennis')
Words == { <<"t", "e", "n", "n", "i", "s">> }

\* is_game_won
is_game_won(w, guessed) == \A i \in DOMAIN w : w[i] \in guessed

\* A faulty variant of is_game_lost: > instead of >=.
is_game_lost_gt(wrong) == wrong > max_attempts

\* is_game_lost
is_game_lost(wrong) == wrong >= max_attempts

\* HANGMAN_STAGES[self.wrong_guesses] of display_status and of the lost
\* branch: the exception the lookup raises
stage_lookup(wrong) ==
    IF wrong >= NumStages \/ wrong < 0 - NumStages THEN "IndexError" ELSE ""

\* make_guess(guess): the new guessed_letters and wrong_guesses
make_guess(guess, w, guessed, wrong) ==
    IF Len(guess) # 1 THEN [guessed |-> guessed, wrong |-> wrong]
    ELSE IF guess[1] \notin Range(ascii_lowercase)
    THEN [guessed |-> guessed, wrong |-> wrong]
    ELSE IF guess[1] \in guessed THEN [guessed |-> guessed, wrong |-> wrong]
    ELSE IF guess[1] \in Range(w)
    THEN [guessed |-> guessed \cup {guess[1]}, wrong |-> wrong]
    ELSE [guessed |-> guessed \cup {guess[1]}, wrong |-> wrong + 1]

\* get_hint: the letters random.choice may reveal
unguessed(w, guessed) == Range(w) \ guessed

MaxMisses == 7

\* the letters the player types: those of the word and the first MaxMisses
\* letters of the alphabet that are not in it
MissLetters(w) ==
    LET out == SelectSeq(ascii_lowercase, LAMBDA c : c \notin Range(w))
    IN  {out[i] : i \in 1..Min(MaxMisses, Len(out))}

\* str.upper of one lower-case letter
upper(c) == ascii_uppercase[CHOOSE j \in 1..26 : ascii_lowercase[j] = c]

\* the lines the player types at "Enter your guess: ": a letter (the first
\* letter of the word also in upper case and padded), a command, or a line
\* that is no letter
Lines(w) ==
    {<<c>> : c \in Range(w) \cup MissLetters(w)}
    \cup { <<upper(w[1])>>, <<" ", w[1], " ">> }
    \cup { <<"q", "u", "i", "t">>, <<"h", "i", "n", "t">>,
           <<" ", "H", "i", "n", "t", " ">>, <<>>, <<"1">>, <<"a", "b">> }

GameInit ==
    /\ pc = "start" /\ printed = <<>> /\ raised = "" /\ result = None
    /\ ScraperNew /\ LoopIdle /\ DocIdle /\ SaveIdle
    /\ GameIdle

scrapeAll == <<scraperVars, loopVars, docVars, saveVars, printed, result>>

\* play() up to the first prompt: choose_word, display_status
Play ==
    /\ pc = "start"
    /\ word' \in Words
    /\ raised' = stage_lookup(wrong_guesses)
    /\ pc' = IF raised' # "" THEN "raised" ELSE "prompt"
    /\ UNCHANGED <<guessed_letters, wrong_guesses, hint_used, scrapeAll>>

\* one pass of the loop of play(): from the input typed at the prompt to
\* the next prompt or to the end of the game
Turn ==
    /\ pc = "prompt"
    /\ \E line \in Lines(word) :
         LET user_input == strip(lower(line))
             g == make_guess(user_input, word, guessed_letters, wrong_guesses)
         IN  /\ IF user_input = <<"q", "u", "i", "t">>
                THEN /\ pc' = "quit"
                     /\ UNCHANGED <<guessed_letters, wrong_guesses, hint_used,
                                    raised>>
                ELSE IF user_input = <<"h", "i", "n", "t">>
                THEN /\ IF ~hint_used /\ unguessed(word, guessed_letters) # {}
                        THEN /\ \E hint_letter \in unguessed(word, guessed_letters) :
                                  guessed_letters' = guessed_letters \cup {hint_letter}
                             /\ hint_used' = TRUE
                        ELSE UNCHANGED <<guessed_letters, hint_used>>
                     /\ raised' = stage_lookup(wrong_guesses)
                     /\ pc' = IF raised' # "" THEN "raised" ELSE "prompt"
                     /\ UNCHANGED wrong_guesses
                ELSE /\ guessed_letters' = g.guessed
                     /\ wrong_guesses' = g.wrong
                     /\ UNCHANGED hint_used
                     /\ IF is_game_won(word, g.guessed)
                        THEN /\ raised' = stage_lookup(g.wrong)
                             /\ pc' = IF raised' # "" THEN "raised" ELSE "won"
                        ELSE IF is_game_lost(g.wrong)
                        THEN /\ raised' = stage_lookup(g.wrong)
                             /\ pc' = IF raised' # "" THEN "raised" ELSE "lost"
                        ELSE /\ raised' = stage_lookup(g.wrong)
                             /\ pc' = IF raised' # "" THEN "raised" ELSE "prompt"
    /\ UNCHANGED <<word, scrapeAll>>

\* "Would you like to play again?": yes resets the object (__init__) and
\* plays again, anything else ends the program
PlayAgain ==
    /\ pc \in {"won", "lost", "quit"}
    /\ \E yes \in BOOLEAN :
         IF yes
         THEN /\ guessed_letters' = {} /\ wrong_guesses' = 0
              /\ hint_used' = FALSE /\ word' = <<>>
              /\ pc' = "start"
         ELSE /\ pc' = "exit"
              /\ UNCHANGED <<word, guessed_letters, wrong_guesses, hint_used>>
    /\ UNCHANGED <<raised, scrapeAll>>

GameNext == Play \/ Turn \/ PlayAgain

SpecHangman == GameInit /\ [][GameNext]_vars
(***************************************************************************)
(* The claims                                                              *)
(***************************************************************************)

RECURSIVE UrlsFetchedOk(_, _)
\* the URLs of us whose fetch, by the outcomes os so far, succeeded
UrlsFetchedOk(us, os) ==
    IF os = <<>> THEN <<>>
    ELSE (IF Head(os) = "ok" THEN <<Head(us)>> ELSE <<>>)
         \o UrlsFetchedOk(Tail(us), Tail(os))

\* C1: scrape_multiple_pages holds, at every point of its loop, exactly one
\* record per URL fetched successfully so far and none for a failed one, in
\* the order of the input and each tagged with its own URL; no failed fetch
\* ends the loop, so when it returns every URL has been requested once, in
\* order, and the list returned is that list of records.
C1_OneRecordPerSuccessfulFetch ==
    /\ pc # "raised"
    /\ pc \in {"loop", "done"} =>
          [i \in DOMAIN all_data |-> all_data[i]["url"]]
              = UrlsFetchedOk(urls, outcomes)
    /\ pc = "done" =>
          /\ Len(outcomes) = Len(urls)
          /\ requests = urls
          /\ result = Some(all_data)

\* C1 witness: [u1, u2, u3] with u2 failing returns the records of u1 and u3.
C1_Witness ==
    /\ pc = "done"
    /\ urls = <<"u1", "u2", "u3">>
    /\ outcomes = <<"ok", "Timeout", "ok">>
    /\ result = Some(<< [title |-> <<"title of", "u1">>, url |-> "u1"],
                        [title |-> <<"title of", "u3">>, url |-> "u3"] >>)

\* C2: a run of scrape_multiple_pages over N URLs has slept at least
\* (N - 1) * delay seconds when it returns, whatever the fetches did.
C2_SleepsBetweenAllRequests ==
    pc = "done" => slept >= (Len(urls) - 1) * delay

\* C3: no network-layer or HTTP-status error escapes fetch_page: each such
\* error makes the call return None, and every call, failed or not, has
\* passed its URL to session.get exactly once (no retry).
C3_FetchErrorsBecomeNone ==
    /\ raised = ""
    /\ Len(fetched) = Len(outcomes)
    /\ requests = SubSeq(urls, 1, Len(outcomes))
    /\ \A i \in DOMAIN outcomes :
          outcomes[i] \in RequestException => fetched[i] = None

\* C3 witness: a run that met a network error and an HTTP status error.
C3_Witness ==
    /\ pc = "done"
    /\ \E i, j \in DOMAIN outcomes :
          outcomes[i] \in NetworkErrors /\ outcomes[j] \in StatusErrors

\* C4: every URL extract_links returns with filter_internal=True has the
\* host of the base URL, and what it returns with filter_internal=False on
\* the same document contains all of them.
C4_InternalLinksShareTheHost ==
    /\ TRUE \in DOMAIN result =>
          \A u \in result[TRUE] :
              urlparse_hostname(u) = urlparse_hostname(base_url)
    /\ DOMAIN result = BOOLEAN => result[TRUE] \subseteq result[FALSE]

\* C4 witness: a document with an internal link kept and an external link
\* dropped by the filter.
C4_Witness ==
    /\ DOMAIN result = BOOLEAN
    /\ result[TRUE] # {}
    /\ \E u \in result[FALSE] \ result[TRUE] :
          urlparse_hostname(u) # urlparse_hostname(base_url)

MetaKeys == {"title", "description", "keywords"}

\* C5 as claimed: every result of extract_metadata, the one for the absent
\* document included, has exactly the keys title, description and keywords,
\* each with a string value.
C5_AlwaysThreeKeys ==
    pc = "done" =>
        /\ DOMAIN result[1] = MetaKeys
        /\ \A k \in MetaKeys : result[1][k] \in STRING

\* C5 as amended: for a document, the result of extract_metadata has exactly
\* the keys title, description and keywords, each with a string value, the
\* placeholder when the element or its content attribute is missing; for
\* the absent document the result is the empty mapping.
C5_ThreeKeysForADocument ==
    pc = "done" =>
        IF soup = None THEN result[1] = <<>>
        ELSE /\ DOMAIN result[1] = MetaKeys
             /\ \A k \in MetaKeys : result[1][k] \in STRING
             /\ soup[1].title = None => result[1]["title"] = "No title"
             /\ soup[1].description \in {None, Some(<<>>)}
                    => result[1]["description"] = "No description"
             /\ soup[1].keywords \in {None, Some(<<>>)}
                    => result[1]["keywords"] = "No keywords"

\* C5 witness: a page with no title and no meta elements gives the three
\* placeholders.
C5_Witness ==
    /\ pc = "done"
    /\ soup = Some([title |-> None, description |-> None, keywords |-> None])
    /\ result = Some([title |-> "No title", description |-> "No description",
                      keywords |-> "No keywords"])

\* scrape_table fetched the page, which has a table at table_index
TableSelected ==
    /\ pc = "done" /\ outcomes = <<"ok">>
    /\ table_index \in 0..(Len(web[url_arg].tables) - 1)

SelectedTable == PyIndex(web[url_arg].tables, table_index)

\* the rows after the first that have at least one cell
LaterRowsWithCells(t) == SelectSeq(Tail(t), LAMBDA row : row # <<>>)

\* m pairs header text i with cell text i for every i below the shorter length
PairsByPosition(h, c, m) ==
    LET n == Min(Len(h), Len(c))
    IN  /\ DOMAIN m = {h[i] : i \in 1..n}
        /\ \A i \in 1..n : m[h[i]] = c[i]

\* the same, but a header text that occurs again further right (below the
\* shorter length) leaves the pairing to its last occurrence, and a first
\* row without cells gives {'data': cells}
PairsByLastPosition(h, c, m) ==
    LET n == Min(Len(h), Len(c))
    IN  IF h = <<>> THEN m = [data |-> c]
        ELSE /\ DOMAIN m = {h[i] : i \in 1..n}
             /\ \A i \in 1..n :
                   (\A j \in (i + 1)..n : h[j] # h[i]) => m[h[i]] = c[i]

\* C6 as claimed: scrape_table returns, in row order, one mapping per later
\* row with a cell, pairing header text i of the first row with cell text i
\* for every i below min(header length, row length).
C6_HeaderPairsWithCellByPosition ==
    TableSelected =>
        IF SelectedTable = <<>> THEN result = Some(<<>>)
        ELSE LET rows == LaterRowsWithCells(SelectedTable)
                 h == cell_texts(SelectedTable[1])
             IN  /\ Len(result[1]) = Len(rows)
                 /\ \A k \in DOMAIN rows :
                       PairsByPosition(h, cell_texts(rows[k]), result[1][k])

\* C6 as amended: scrape_table returns, in row order, one mapping per later
\* row with a cell; when the first row has a cell the keys are the header
\* texts below min(header length, row length) and header text i maps to
\* cell text i unless the same header text occurs again further right below
\* that length (the last occurrence wins); when the first row has no cell
\* each mapping is {'data': the row's cell texts}.
C6_HeaderPairsWithLastCell ==
    TableSelected =>
        IF SelectedTable = <<>> THEN result = Some(<<>>)
        ELSE LET rows == LaterRowsWithCells(SelectedTable)
                 h == cell_texts(SelectedTable[1])
             IN  /\ Len(result[1]) = Len(rows)
                 /\ \A k \in DOMAIN rows :
                       PairsByLastPosition(h, cell_texts(rows[k]), result[1][k])

\* C6 witness: header [h1, h2] with rows [[a, b], [c]] gives
\* [{h1: a, h2: b}, {h1: c}].
C6_Witness ==
    /\ TableSelected
    /\ SelectedTable = << <<"h1", "h2">>, <<"a", "b">>, <<"c">> >>
    /\ result = Some(<< [h1 |-> "a", h2 |-> "b"], [h1 |-> "c"] >>)

\* C7: when the page fetched has no table at table_index (no tables, or an
\* index outside 0..number of tables - 1, negative ones included),
\* scrape_table prints the notice and returns [] without raising.
C7_NoTableAtIndexGivesEmpty ==
    ( /\ pc \in {"done", "raised"} /\ outcomes = <<"ok">>
      /\ (table_index < 0 \/ table_index >= Len(web[url_arg].tables)) )
    => /\ raised = ""
       /\ result = Some(<<>>)
       /\ "Table not found" \in Range(printed)

\* C8: a call of save_to_csv or save_to_json never raises and leaves data as
\* it was; save_to_csv of an empty list leaves the file alone and prints
\* only the empty-input notice; otherwise the call prints exactly one
\* message, the error message whenever the file system failed or the file
\* written is not complete.
C8_SaveReportsAndReturns ==
    [][ (pc = "idle" /\ pc' # "idle") =>
          /\ raised' = ""
          /\ data' = data
          /\ IF pc' = "csv" /\ data = <<>>
             THEN file' = file /\ printed' = <<"No data to save">>
             ELSE LET complete ==
                        /\ file'.opened
                        /\ Len(file'.lines)
                              = Len(data) + (IF pc' = "csv" THEN 1 ELSE 0)
                  IN  /\ printed' \in {<<"Data saved">>,
                                       <<"Error saving to CSV">>,
                                       <<"Error saving to JSON">>}
                      /\ (outcomes'[1] # "none" \/ ~complete)
                             => printed' # <<"Data saved">>
      ]_vars

\* C8 witness: save_to_csv of rows with differing keys fails while writing
\* (ValueError) and reports it.
C8_Witness ==
    /\ pc = "csv" /\ outcomes = <<"none">>
    /\ file.opened /\ Len(file.lines) < Len(data) + 1
    /\ printed = <<"Error saving to CSV">>
    /\ raised = ""

\* C9: wrong_guesses stays within 0..max_attempts and no HANGMAN_STAGES
\* lookup raises; it grows only by one, and only when the line typed adds a
\* new letter a-z that is not in the word to guessed_letters; and every
\* such letter counts.
C9_WrongGuessesInRange ==
    /\ wrong_guesses \in 0..max_attempts
    /\ [][ /\ wrong_guesses' \in 0..max_attempts
           /\ raised' = ""
           /\ wrong_guesses' > wrong_guesses =>
                 /\ wrong_guesses' = wrong_guesses + 1
                 /\ pc = "prompt"
                 /\ \E c \in Range(ascii_lowercase) \ (guessed_letters \cup Range(word)) :
                       guessed_letters' = guessed_letters \cup {c}
           /\ (pc = "prompt" /\ wrong_guesses' = wrong_guesses) =>
                 (guessed_letters' \ guessed_letters) \subseteq Range(word)
         ]_vars

\* C9 witness: a game lost at the sixth wrong guess.
C9_Witness ==
    /\ pc = "lost"
    /\ wrong_guesses = max_attempts
    /\ Cardinality(guessed_letters \ Range(word)) = max_attempts

\* C10: whenever play() prompts for a guess a letter of the word is still
\* unrevealed, and a game whose word is fully revealed never ends as lost.
C10_PromptOnlyWhileUnrevealed ==
    /\ pc = "prompt" => ~is_game_won(word, guessed_letters)
    /\ pc = "lost" => ~is_game_won(word, guessed_letters)

====
